---- MODULE Spec2Model ----
(***************************************************************************)
(* The browser client of "the-gang" (static/script.js, latest version):    *)
(* persistent identity in localStorage, the socket handlers, the intent     *)
(* functions, renderGame and the tomato effect.  The page is modelled as a  *)
(* state machine: the script's top-level variables, localStorage, the DOM   *)
(* elements the script writes, the pending timers, the clock, and the       *)
(* messages the last handler emitted on the socket.                         *)
(***************************************************************************)
EXTENDS Integers, Sequences, FiniteSets, TLC

(* ------------------------------ bounds -------------------------------- *)

\* Longest text a user types into the chat or the name input.
MaxLen == 3
\* Number of page reloads followed.
MaxReloads == 1
\* Clock steps followed after the page was loaded.
MaxTicks == 2
\* Events (socket messages, user actions, timer callbacks, clock steps)
\* followed in a run of the whole page.
MaxSteps == 4
\* Clock steps followed where the tomato effect is followed to its end.
MaxElapses == 4
\* Handler runs followed there.
MaxTomatoSteps == 8

(* ------------------------------ values -------------------------------- *)

\* JS null / undefined / "" for an id: all are falsy in the script's tests.
NoId == ""

\* An optional value: <<>> is null (absent), <<v>> is the value v.
None == <<>>
Some(v) == <<v>>

\* Values crypto.randomUUID() can return.
UUIDs == {"u1", "u2"}

\* Characters of typed text; " " is whitespace for String.prototype.trim.
Chars == {" ", "a"}
IsSpace(c) == c = " "
Texts == UNION {[1..n -> Chars] : n \in 0..MaxLen}

Max(a, b) == IF a >= b THEN a ELSE b

(* String.prototype.trim: drop the whitespace at both ends. *)
RECURSIVE TrimStart(_)
TrimStart(t) ==
  IF t = <<>> THEN <<>>
  ELSE IF IsSpace(Head(t)) THEN TrimStart(Tail(t))
  ELSE t

RECURSIVE TrimEnd(_)
TrimEnd(t) ==
  IF t = <<>> THEN <<>>
  ELSE IF IsSpace(t[Len(t)]) THEN TrimEnd(SubSeq(t, 1, Len(t) - 1))
  ELSE t

Trim(t) == TrimEnd(TrimStart(t))

\* String(b) for a boolean b, and the test  stored === "true".
BoolString(b) == IF b THEN "true" ELSE "false"

(* ------------------------ localStorage ------------------------------- *)

\* localStorage as this script uses it: three optional string items.
EmptyStorage == [player_id |-> None, player_name |-> None, observer_mode |-> None]

\* localStorage.getItem(key) / setItem(key, value)
getItem(ls, key) == ls[key]
setItem(ls, key, value) == [ls EXCEPT ![key] = Some(value)]

(* --------------------------- socket messages -------------------------- *)

JoinGame(pid, name, obs) ==
  [type |-> "join_game", player_id |-> pid, name |-> name, is_observer |-> obs]
ChatMessage(text) == [type |-> "chat_message", text |-> text]
ChangeNameMsg(name) == [type |-> "change_name", name |-> name]
TakeChipMsg(value, source) ==
  [type |-> "take_chip", chip_value |-> value, source |-> source]
RemovePlayerMsg(target) == [type |-> "remove_player", target_player_id |-> target]
ThrowTomatoMsg(target) == [type |-> "throw_tomato", target_player_id |-> target]
Bare(type) == [type |-> type]

(* ----------------------------- snapshots ------------------------------ *)

SeqMap(F(_), s) == [i \in 1..Len(s) |-> F(s[i])]

\* The suits createCardDiv marks red (hearts and diamonds).
RedSuits == {"hearts", "diamonds"}
CardA == [str |-> "A-hearts", suit |-> "hearts"]
CardK == [str |-> "K-spades", suit |-> "spades"]

WhiteChip(v) == [color |-> "White", value |-> v]

\* The socket session id the server holds for a participant.
Sid(pid) == "sid-" \o pid

\* The viewer's record  state.me  for viewer id vid.
MeRec(vid, chip, settled) ==
  [player_id |-> vid, sid |-> Sid(vid), name |-> "Viewer", hand |-> <<CardA, CardK>>,
   chip_history |-> IF chip = 0 THEN <<>> ELSE <<WhiteChip(1)>>,
   chip |-> chip, is_settled |-> settled]

\* An entry of  state.players.  chip 0 stands for null (no chip),
\* disconnected_at 0 for a missing timestamp.
PlayerRec(pid, name, obs, conn, at, settled, chip, queued) ==
  [player_id |-> pid, sid |-> Sid(pid), name |-> name, is_observer |-> obs,
   is_connected |-> conn,
   disconnected_at |-> at, is_settled |-> settled, chip |-> chip,
   chip_history |-> IF chip = 0 THEN <<>> ELSE <<WhiteChip(2)>>,
   hand |-> IF settled /\ ~obs THEN <<CardK>> ELSE <<>>,
   queued_to_join |-> queued]

\* The other participants, as lists in the server's order.  nowSec is the
\* clock (seconds) when the snapshot is sent: a disconnected player's
\* disconnected_at is missing, about a minute old or about an hour old.
OthersLists(nowSec) ==
  {<<>>,
   <<PlayerRec("p2", "Bob", FALSE, TRUE, 0, FALSE, 1, FALSE)>>,
   <<PlayerRec("p2", "Bob", FALSE, TRUE, 0, TRUE, 3, FALSE),
     PlayerRec("p3", "Cyd", TRUE, TRUE, 0, FALSE, 0, TRUE)>>,
   <<PlayerRec("p2", "Bob", TRUE, FALSE, 0, FALSE, 0, FALSE),
     PlayerRec("p3", "Cyd", FALSE, TRUE, 0, FALSE, 0, FALSE)>>}
  \cup
  {<<PlayerRec("p2", "Bob", FALSE, FALSE, at, FALSE, 0, FALSE)>> :
     at \in {0, nowSec - 59, nowSec - 3661}}

\* state.players: the viewer's own entry is the second of the list; it is an
\* observer entry exactly when the viewer's role is observer.
PlayersOf(vid, role, chip, settled, others) ==
  LET own == PlayerRec(vid, "Viewer", role = "observer", TRUE, 0,
                       settled, chip, FALSE)
  IN IF others = <<>> THEN <<own>>
     ELSE <<Head(others), own>> \o Tail(others)

ResultDetails ==
  [FLOP |-> <<[name |-> "Bob", guess_rank |-> 1, true_rank |-> 2,
               hand_class |-> "Pair", is_correct |-> FALSE],
              [name |-> "Viewer", guess_rank |-> 2, true_rank |-> 1,
               hand_class |-> "Flush", is_correct |-> TRUE]>>,
   TURN |-> <<>>, RIVER |-> <<>>]

\* A tomato event: at is the server time in seconds.
TomatoEvent(id, at, from, to) ==
  [id |-> id, at |-> at, from_id |-> from, to_id |-> to,
   from_name |-> from, to_name |-> to]

\* A game_update payload with a viewer record.
Snapshot(vid, role, phase, chip, settled, others, win, ev) ==
  [me |-> Some(MeRec(vid, chip, settled)),
   viewer_role |-> role,
   phase |-> phase,
   chip_color |-> "White",
   community_cards |-> IF phase = "LOBBY" THEN <<>> ELSE <<CardK, CardA>>,
   chips_available |-> IF phase = "FLOP" THEN <<1, 3>> ELSE <<>>,
   players |-> PlayersOf(vid, role, chip, settled, others),
   result_message |-> IF phase # "RESULT" THEN <<>>
                      ELSE IF win THEN <<"HEIST", "SUCCESS">>
                      ELSE <<"ALARM", "TRIGGERED">>,
   result_details |-> IF phase = "RESULT" /\ win THEN Some(ResultDetails) ELSE None,
   vaults |-> IF phase = "RESULT" /\ win THEN 1 ELSE 0,
   alarms |-> IF phase = "RESULT" /\ ~win THEN 1 ELSE 0,
   chat_messages |-> IF phase = "LOBBY" THEN <<>>
                     ELSE <<[name |-> "Bob", text |-> "hi", is_observer |-> FALSE],
                            [name |-> "Cyd", text |-> "yo", is_observer |-> TRUE]>>,
   tomato_event |-> ev]

\* The payload sent before the viewer has joined: state.me is null.
NoMeSnapshot ==
  [Snapshot(NoId, "player", "LOBBY", 0, FALSE, <<>>, FALSE, None)
     EXCEPT !.me = None, !.players = <<>>]
(* ------------------------------- DOM ---------------------------------- *)

\* String.prototype.toLowerCase on the chip colours the server uses.
toLowerCase(s) ==
  CASE s = "White" -> "white"
    [] s = "Yellow" -> "yellow"
    [] s = "Orange" -> "orange"
    [] s = "Red" -> "red"
    [] OTHER -> s

\* msg.includes(word), a message being its words.
Includes(msg, word) == \E i \in 1..Len(msg) : msg[i] = word

\* classList.toggle(name, force); add is force TRUE, remove is force FALSE.
\* A variant that never removes a class:
ClassToggleAddOnly(classes, name, force) ==
  IF force THEN classes \cup {name} ELSE classes

ClassToggle(classes, name, force) ==
  IF force THEN classes \cup {name} ELSE classes \ {name}

\* el.innerHTML = "": the element's children are dropped.
\* A variant that leaves the children in place:
ClearKeepsChildren(children) == children

ClearChildren(children) == <<>>

\* A rendered duration label; form "" is the empty label.
NoLabel == [form |-> "", a |-> 0, b |-> 0]

formatDuration(totalSeconds) ==
  LET ts == Max(0, totalSeconds)
      h == ts \div 3600
      m == (ts % 3600) \div 60
      sec == ts % 60
  IN IF h > 0 THEN [form |-> "h m", a |-> h, b |-> m]
     ELSE IF m > 0 THEN [form |-> "m s", a |-> m, b |-> sec]
     ELSE [form |-> "s", a |-> sec, b |-> 0]

\* Math.floor(Date.now() / 1000 - at) for a whole number of seconds at.
ElapsedSeconds(nowMs, at) == (nowMs \div 1000) - at

createCardDiv(card) ==
  [text |-> card.str,
   classes |-> {"card"} \cup (IF card.suit \in RedSuits THEN {"red-suit"} ELSE {})]

SmallCard(card) ==
  [createCardDiv(card) EXCEPT !.classes = @ \cup {"small-card"}]

MiniChip(h) ==
  [classes |-> {"mini-chip", "chip-" \o toLowerCase(h.color)}, text |-> h.value]

\* The text content of #phase-display.
PhasePlain(text) ==
  [kind |-> "text", text |-> text, color |-> "", buttons |-> <<>>,
   details |-> <<>>]

StatusText(phase, chip_color) ==
  IF phase = "LOBBY" THEN <<"Waiting for Players...">>
  ELSE <<phase, " - ", chip_color, " Chips">>

ResultRow(row) ==
  [name |-> row.name, guess |-> row.guess_rank, true |-> row.true_rank,
   hand |-> row.hand_class,
   statusClass |-> IF row.is_correct THEN "ok" ELSE "off",
   statusLabel |-> IF row.is_correct THEN "OK" ELSE "OFF"]

\* buildResultDetails: "" for missing details, else one block per phase.
buildResultDetails(details) ==
  IF details = None THEN <<>>
  ELSE LET d == details[1]
           Block(phase) ==
             [title |-> phase, empty |-> Len(d[phase]) = 0,
              rows |-> SeqMap(ResultRow, d[phase])]
       IN <<Block("FLOP"), Block("TURN"), Block("RIVER")>>

\* A variant that shows the rankings whatever the flag says:
PhaseResultAlwaysDetails(msg, srd, details) ==
  [kind |-> "result", text |-> msg,
   color |-> IF Includes(msg, "SUCCESS") \/ Includes(msg, "WIN")
             THEN "#2ecc71" ELSE "#e74c3c",
   buttons |-> <<"startGame()", "restartGame()", "toggleResultDetails()",
                 IF srd THEN "Hide Detailed Rankings"
                 ELSE "Show Detailed Rankings">>,
   details |-> buildResultDetails(details)]

PhaseResult(msg, srd, details) ==
  [kind |-> "result", text |-> msg,
   color |-> IF Includes(msg, "SUCCESS") \/ Includes(msg, "WIN")
             THEN "#2ecc71" ELSE "#e74c3c",
   buttons |-> <<"startGame()", "restartGame()", "toggleResultDetails()",
                 IF srd THEN "Hide Detailed Rankings"
                 ELSE "Show Detailed Rankings">>,
   details |-> IF srd THEN buildResultDetails(details) ELSE <<>>]

BankButton(val, chip_color) ==
  [classes |-> {"chip", "chip-" \o toLowerCase(chip_color)}, label |-> val,
   chip_value |-> val, source |-> "center"]

\* One .player-card of the opponents row.  chipBtn is the optional chip
\* button with its onclick arguments; kick the optional Remove button.
\* A variant whose chip button names the socket sid (as the first version of
\* the script did):
OpponentCardBySid(p, chip_color, nowMs) ==
  LET isDisc == p.is_connected = FALSE
      at == p.disconnected_at
  IN [player_id |-> p.player_id,
      classes |-> {"player-card", IF p.is_settled THEN "settled" ELSE "thinking"}
                  \cup (IF isDisc THEN {"disconnected"} ELSE {}),
      name |-> p.name,
      status |-> IF isDisc THEN "DISCONNECTED"
                 ELSE IF p.is_settled THEN "SETTLED" ELSE "...",
      discAt |-> IF isDisc THEN Some(at) ELSE None,
      discTime |-> IF isDisc /\ at # 0
                   THEN formatDuration(ElapsedSeconds(nowMs, at)) ELSE NoLabel,
      kick |-> IF isDisc THEN Some(p.player_id) ELSE None,
      hand |-> SeqMap(SmallCard, p.hand),
      chipBtn |-> IF p.chip # 0
                  THEN Some([classes |-> {"chip", "chip-" \o toLowerCase(chip_color)},
                             label |-> p.chip, chip_value |-> p.chip,
                             source |-> p.sid])
                  ELSE None,
      history |-> SeqMap(MiniChip, p.chip_history)]

OpponentCard(p, chip_color, nowMs) ==
  LET isDisc == p.is_connected = FALSE
      at == p.disconnected_at
  IN [player_id |-> p.player_id,
      classes |-> {"player-card", IF p.is_settled THEN "settled" ELSE "thinking"}
                  \cup (IF isDisc THEN {"disconnected"} ELSE {}),
      name |-> p.name,
      status |-> IF isDisc THEN "DISCONNECTED"
                 ELSE IF p.is_settled THEN "SETTLED" ELSE "...",
      discAt |-> IF isDisc THEN Some(at) ELSE None,
      discTime |-> IF isDisc /\ at # 0
                   THEN formatDuration(ElapsedSeconds(nowMs, at)) ELSE NoLabel,
      kick |-> IF isDisc THEN Some(p.player_id) ELSE None,
      hand |-> SeqMap(SmallCard, p.hand),
      chipBtn |-> IF p.chip # 0
                  THEN Some([classes |-> {"chip", "chip-" \o toLowerCase(chip_color)},
                             label |-> p.chip, chip_value |-> p.chip,
                             source |-> p.player_id])
                  ELSE None,
      history |-> SeqMap(MiniChip, p.chip_history)]

\* updateDisconnectedTimers: refresh the label of every .disc-time element
\* whose data-disconnected-at is a positive number.
RefreshCard(card, nowMs) ==
  IF card.discAt # None /\ card.discAt[1] > 0
  THEN [card EXCEPT !.discTime = formatDuration(ElapsedSeconds(nowMs, card.discAt[1]))]
  ELSE card

updateDisconnectedTimers(dom, nowMs) ==
  [dom EXCEPT !.opponents = [i \in 1..Len(@) |-> RefreshCard(@[i], nowMs)]]

ObserverPill(o, isObserverView, me) ==
  [classes |-> {"observer-pill"}
               \cup (IF o.is_connected = FALSE THEN {"disconnected"} ELSE {}),
   text |-> <<o.name,
              IF o.queued_to_join THEN " (QUEUING)" ELSE "",
              IF isObserverView /\ o.player_id = me.player_id THEN " (You)" ELSE "">>]

ChatLine(msg) ==
  [name |-> <<msg.name, IF msg.is_observer THEN " (Observer)" ELSE "">>,
   text |-> msg.text]

\* The elements the script writes, as the static page holds them before the
\* first render: empty containers, no classes set by the script.
InitialDom ==
  [bodyClasses |-> {}, phase |-> PhasePlain(<<>>), vault |-> 0, alarm |-> 0,
   myName |-> "", community |-> <<>>, chipBank |-> <<>>, chipBankClasses |-> {},
   opponents |-> <<>>, observerEmpty |-> FALSE, observerList |-> <<>>,
   observerStatus |-> "", observerBtn |-> "", chat |-> <<>>, myCards |-> <<>>,
   myHistory |-> <<>>, myChipSlot |-> [kind |-> "", classes |-> {}, value |-> 0],
   settleDisabled |-> FALSE, returnDisabled |-> FALSE, settleText |-> "",
   settleClasses |-> {}, areaClasses |-> {}, areaSplat |-> FALSE,
   areaPlayerId |-> NoId]
(* ------------------------------ renderGame ---------------------------- *)

\* The opponents row: every non-observer entry of state.players except, in
\* player view, the viewer's own.
\* A variant that does not skip observers:
IsOpponentAnyRole(p, myPlayerId) ==
  ~(myPlayerId # NoId /\ p.player_id = myPlayerId)

IsOpponent(p, myPlayerId) ==
  /\ ~p.is_observer
  /\ ~(myPlayerId # NoId /\ p.player_id = myPlayerId)

\* renderGame from  document.body.classList.toggle  to  updateDisconnectedTimers,
\* for a snapshot with a viewer record, without the tomato calls: the DOM
\* writes in the order of the source, each on the DOM the one before left.
RenderDom(dom, state, srd, nowMs) ==
  LET me == state.me[1]
      isObserverView == state.viewer_role = "observer"
      phase == state.phase
      chip_color == state.chip_color
      d1 == [dom EXCEPT
               !.bodyClasses = ClassToggle(@, "observer-mode", isObserverView)]
      \* 1. Status & Score
      d2 == [d1 EXCEPT
               !.phase = IF phase # "RESULT"
                         THEN PhasePlain(StatusText(phase, chip_color)) ELSE @,
               !.vault = state.vaults,
               !.alarm = state.alarms,
               !.myName = me.name]
      d3 == IF phase = "RESULT"
            THEN [d2 EXCEPT !.phase = PhaseResult(state.result_message, srd,
                                                  state.result_details)]
            ELSE d2
      \* 2. Community Cards, 3. Chip Bank
      d4 == [d3 EXCEPT
               !.community = ClearChildren(@)
                             \o SeqMap(createCardDiv, state.community_cards),
               !.chipBank = ClearChildren(@)
                            \o [i \in 1..Len(state.chips_available) |->
                                  BankButton(state.chips_available[i], chip_color)]]
      \* 4. Opponents
      myPlayerId == IF isObserverView THEN NoId ELSE me.player_id
      shown == SelectSeq(state.players, LAMBDA p : IsOpponent(p, myPlayerId))
      d5 == [d4 EXCEPT
               !.opponents = ClearChildren(@)
                             \o [i \in 1..Len(shown) |->
                                   OpponentCard(shown[i], chip_color, nowMs)]]
      \* Observers
      observerItems == SelectSeq(state.players, LAMBDA p : p.is_observer)
      d6 == [d5 EXCEPT
               !.observerEmpty = Len(observerItems) = 0,
               !.observerList = ClearChildren(@)
                                \o [i \in 1..Len(observerItems) |->
                                      ObserverPill(observerItems[i], isObserverView, me)],
               !.observerStatus = IF isObserverView THEN "You are observing" ELSE "",
               !.observerBtn = IF isObserverView THEN "Join Game" ELSE "Observe"]
      \* Chat
      d7 == [d6 EXCEPT
               !.chat = ClearChildren(@) \o SeqMap(ChatLine, state.chat_messages)]
      \* 5. My State
      d8 == [d7 EXCEPT
               !.myCards = ClearChildren(@)
                           \o (IF ~isObserverView /\ Len(me.hand) > 0
                               THEN SeqMap(createCardDiv, me.hand) ELSE <<>>),
               !.myHistory = ClearChildren(@)
                             \o (IF ~isObserverView /\ Len(me.chip_history) > 0
                                 THEN SeqMap(MiniChip, me.chip_history) ELSE <<>>)]
      \* My Chip (current)
      d9 == IF ~isObserverView /\ me.chip # 0
            THEN [d8 EXCEPT
                    !.myChipSlot = [kind |-> "chip",
                                    classes |-> {"chip", "chip-" \o toLowerCase(chip_color)},
                                    value |-> me.chip],
                    !.settleDisabled = FALSE,
                    !.returnDisabled = me.is_settled]
            ELSE IF isObserverView
            THEN [d8 EXCEPT
                    !.myChipSlot = [kind |-> "Observer", classes |-> {"placeholder"},
                                    value |-> 0],
                    !.settleDisabled = TRUE,
                    !.returnDisabled = TRUE]
            ELSE [d8 EXCEPT
                    !.myChipSlot = [kind |-> "Pick a chip", classes |-> {"placeholder"},
                                    value |-> 0],
                    !.settleDisabled = TRUE,
                    !.returnDisabled = TRUE]
      \* Disable/enable chip bank picking based on settle state
      d10 == IF isObserverView
             THEN [d9 EXCEPT
                     !.settleText = "I'm Settled",
                     !.settleClasses = ClassToggle(@, "active", FALSE),
                     !.chipBankClasses = ClassToggle(@, "disabled", TRUE)]
             ELSE IF me.is_settled
             THEN [d9 EXCEPT
                     !.settleText = "Cancel Settle",
                     !.settleClasses = ClassToggle(@, "active", TRUE),
                     !.chipBankClasses = ClassToggle(@, "disabled", TRUE)]
             ELSE [d9 EXCEPT
                     !.settleText = "I'm Settled",
                     !.settleClasses = ClassToggle(@, "active", FALSE),
                     !.chipBankClasses = ClassToggle(@, "disabled", FALSE)]
      d11 == [d10 EXCEPT
                !.areaClasses = ClassToggle(@, "playing-settled",
                                            ~isObserverView /\ me.is_settled),
                !.areaSplat = TRUE,
                !.areaPlayerId = me.player_id]
  IN updateDisconnectedTimers(d11, nowMs)
(* --------------------------- the tomato effect ------------------------ *)

TOMATO_LIFETIME_MS == 3000
TOMATO_FLIGHT_MS == 650
GAME_ACTION_TOAST_MS == 3000
\* The extra delay of animateTomatoFlight's fallback timer.
FLIGHT_FALLBACK_EXTRA_MS == 200
\* The period of setInterval(updateDisconnectedTimers, ...).
DISC_TIMER_PERIOD_MS == 1000

\* The tomato variables of the script and the tomato parts of the document.
\*   tomatoClearTimeout, tomatoImpactTimeout: the pending timer, or None once
\*     it fired or was cleared; the impact timer keeps what its callback
\*     captured (targetId, me.player_id);
\*   hits: the elements of the document carrying class tomato-hit, "area" for
\*     #player-area and a player id for that player's .player-card;
\*   flights: the .tomato-flight elements, each with the element its cleanup
\*     captured (live: still in the document) and its fallback timer;
\*   toast: #tomato-toast;
\*   appliedAt: history, the clock reading when applyTomatoEffect last went
\*     on to show an event (None: it never did).
Area == "area"
NoEl == ""
HiddenToast == [show |-> FALSE, text |-> <<>>]

InitialTomato ==
  [tomatoClearTimeout |-> None, tomatoImpactTimeout |-> None,
   lastTomatoEventId |-> NoId, pendingTomatoEvent |-> None,
   activeTomatoTargetId |-> NoId, activeTomatoExpiresAt |-> 0,
   activeTomatoShowAt |-> 0,
   hits |-> {}, flights |-> {}, toast |-> HiddenToast, appliedAt |-> None]

\* document.querySelector(`.player-card[data-player-id="${id}"]`) || (me &&
\* me.player_id === id ? playerAreaEl : null);  meId is NoId for a null me.
HasCard(dom, id) == \E i \in 1..Len(dom.opponents) : dom.opponents[i].player_id = id

TargetElement(dom, meId, id) ==
  IF id # NoId /\ HasCard(dom, id) THEN id
  ELSE IF meId # NoId /\ meId = id THEN Area
  ELSE NoEl

MeId(me) == IF me = None THEN NoId ELSE me[1].player_id

\* document.querySelectorAll(".tomato-hit").forEach(remove the class)
RemoveHits(T) == [T EXCEPT !.hits = {}]

\* if (tomatoImpactTimeout) clearTimeout(tomatoImpactTimeout)
ClearImpact(T) == [T EXCEPT !.tomatoImpactTimeout = None]

updateTomatoToast(T, text) ==
  IF text = <<>> THEN [T EXCEPT !.toast = HiddenToast]
  ELSE [T EXCEPT !.toast = [show |-> TRUE, text |-> text]]

SplatText(event) == <<event.from_name, " splats ", event.to_name>>

scheduleTomatoImpact(T, targetId, meId, delayMs, nowMs) ==
  IF targetId = NoId THEN T
  ELSE [T EXCEPT !.tomatoImpactTimeout =
          Some([due |-> nowMs + Max(0, delayMs), targetId |-> targetId,
                meId |-> meId])]

animateTomatoFlight(T, targetEl, nowMs) ==
  [T EXCEPT !.flights = @ \cup
     {[target |-> targetEl, live |-> TRUE,
       due |-> nowMs + TOMATO_FLIGHT_MS + FLIGHT_FALLBACK_EXTRA_MS]}]

scheduleTomatoClear(T, nowMs) ==
  [T EXCEPT !.tomatoClearTimeout = Some(nowMs + TOMATO_LIFETIME_MS)]

\* The body of an expired or missing event: marks, impact timer and toast go.
DropTomato(T) == updateTomatoToast(ClearImpact(RemoveHits(T)), <<>>)

\* applyTomatoEffect(event, me, playerAreaEl); event is None for a missing
\* event, event.at None for an at that is not a number.
applyTomatoEffect(T, dom, event, me, nowMs) ==
  IF event = None \/ event[1].at = None THEN DropTomato(T)
  ELSE
    LET ev == event[1]
        atMs == ev.at[1] * 1000
        ageMs == nowMs - atMs
        targetId == ev.to_id
        targetEl == TargetElement(dom, MeId(me), targetId)
        sourceEl == TargetElement(dom, MeId(me), ev.from_id)
        T1 == IF ev.id # NoId THEN [T EXCEPT !.lastTomatoEventId = ev.id] ELSE T
        T2 == IF targetId # NoId
              THEN [T1 EXCEPT !.activeTomatoTargetId = targetId,
                              !.activeTomatoExpiresAt = atMs + TOMATO_LIFETIME_MS,
                              !.activeTomatoShowAt = nowMs + TOMATO_FLIGHT_MS]
              ELSE T1
        T3 == IF sourceEl # NoEl /\ targetEl # NoEl
              THEN scheduleTomatoImpact(animateTomatoFlight(T2, targetEl, nowMs),
                                        targetId, MeId(me), TOMATO_FLIGHT_MS, nowMs)
              ELSE IF targetEl # NoEl
              THEN [T2 EXCEPT !.hits = @ \cup {targetEl}]
              ELSE T2
    IN IF ageMs > TOMATO_LIFETIME_MS THEN DropTomato(T)
       ELSE IF ev.id # NoId /\ ev.id = T.lastTomatoEventId THEN T
       ELSE [scheduleTomatoClear(updateTomatoToast(T3, SplatText(ev)), nowMs)
               EXCEPT !.appliedAt = Some(nowMs)]

applyActiveTomatoTarget(T, dom, me, nowMs) ==
  IF T.activeTomatoTargetId = NoId \/ nowMs > T.activeTomatoExpiresAt
  THEN ClearImpact([RemoveHits(T) EXCEPT !.activeTomatoTargetId = NoId,
                                          !.activeTomatoExpiresAt = 0,
                                          !.activeTomatoShowAt = 0])
  ELSE IF T.activeTomatoShowAt # 0 /\ nowMs < T.activeTomatoShowAt
  THEN scheduleTomatoImpact(T, T.activeTomatoTargetId, MeId(me),
                            T.activeTomatoShowAt - nowMs, nowMs)
  ELSE LET targetEl == TargetElement(dom, MeId(me), T.activeTomatoTargetId)
       IN IF targetEl # NoEl THEN [T EXCEPT !.hits = @ \cup {targetEl}] ELSE T

\* opponentsEl.innerHTML = "" in renderGame: the old cards leave the document,
\* with their tomato-hit marks; a flight's cleanup still holds its old card.
DetachCards(T) ==
  [T EXCEPT !.hits = @ \cap {Area},
            !.flights = {[f EXCEPT !.live = f.target = Area] : f \in @}]

\* The tomato calls that end renderGame, on the freshly rendered DOM.
RenderTomato(T, dom, state, nowMs) ==
  LET me == state.me
      T1 == applyActiveTomatoTarget(DetachCards(T), dom, me, nowMs)
      T2 == applyTomatoEffect(T1, dom, state.tomato_event, me, nowMs)
  IN IF T2.pendingTomatoEvent # None
     THEN [applyTomatoEffect(T2, dom, T2.pendingTomatoEvent, me, nowMs)
             EXCEPT !.pendingTomatoEvent = None]
     ELSE T2
(* ------------------------------- state -------------------------------- *)

VARIABLES
  localStorage,       \* the origin's localStorage
  playerId, myName, isObserver, showResultDetails, lastState,
  rendered,           \* history: the last payload renderGame rendered in full
  tomato,             \* the tomato variables and document parts (InitialTomato)
  openTomatoMenu,     \* 0 for null, else the id of the menu element it holds
  gameActionToast,    \* #game-action-toast and gameActionToastTimeout
  dom,                \* the elements renderGame writes (InitialDom)
  menus,              \* the .tomato-menu elements attached to the document
  chatInput, nameInput,   \* the value of #chat-input and of #name-input
  now,                \* Date.now()
  ticks, reloads,     \* clock steps and page reloads so far
  steps, limit,       \* events so far, and how many are followed (0: all)
  outbox,             \* the messages the last handler emitted on the socket
  lastOp,             \* the handler that ran last
  lastInput,          \* the input value that handler read (<<>> if none)
  dialog              \* the user's answer to that handler's confirm(): "ok",
                      \* "cancel", or "" when it showed none

vars == <<localStorage, playerId, myName, isObserver, showResultDetails,
          lastState, rendered, tomato, openTomatoMenu, gameActionToast, dom, menus,
          chatInput, nameInput, now, ticks, reloads, steps, limit, outbox,
          lastOp, lastInput, dialog>>

\* The variables of the script and the page other than the socket record.
scriptVars == <<localStorage, playerId, myName, isObserver, showResultDetails,
                lastState, rendered, tomato, openTomatoMenu, gameActionToast, dom,
                menus, chatInput, nameInput>>
clockVars == <<now, ticks, reloads>>

\* The clock reading when the page is first loaded.
StartMs == 4000000

HiddenActionToast == [show |-> FALSE, text |-> "", due |-> None]

(* --------------------------- page load -------------------------------- *)

\* let playerId = localStorage.getItem("player_id"); if (!playerId) { ... }
\* uuid is what crypto.randomUUID() returns if it is called.
\* A variant that does not store the id it generates:
LoadKeepsNoId(ls, uuid) ==
  IF getItem(ls, "player_id") = None THEN [id |-> uuid, ls |-> ls]
  ELSE [id |-> getItem(ls, "player_id")[1], ls |-> ls]

LoadPlayerId(ls, uuid) ==
  IF getItem(ls, "player_id") = None \/ getItem(ls, "player_id") = Some(NoId)
  THEN [id |-> uuid, ls |-> setItem(ls, "player_id", uuid)]
  ELSE [id |-> getItem(ls, "player_id")[1], ls |-> ls]

\* localStorage.getItem("player_name") || ""
LoadName(ls) ==
  IF getItem(ls, "player_name") = None THEN <<>> ELSE getItem(ls, "player_name")[1]

\* localStorage.getItem("observer_mode") === "true"
LoadObserver(ls) == getItem(ls, "observer_mode") = Some("true")

(* ------------------------------ the socket ---------------------------- *)

\* What every handler records: its name, the input it read, the confirm answer.
Ran(op, input, answer) ==
  /\ limit = 0 \/ steps < limit
  /\ steps' = IF limit = 0 THEN 0 ELSE steps + 1
  /\ limit' = limit
  /\ lastOp' = op
  /\ lastInput' = input
  /\ dialog' = answer

\* socket.on("connect")
Connect ==
  /\ outbox' = <<>>
  /\ Ran("connect", <<>>, "")
  /\ UNCHANGED <<scriptVars, clockVars>>

\* A variant that does not answer:
RequestJoinSilent ==
  /\ outbox' = <<>>
  /\ Ran("request_join", <<>>, "")
  /\ UNCHANGED <<scriptVars, clockVars>>

\* socket.on("request_join")
RequestJoin ==
  /\ outbox' = <<JoinGame(playerId, myName, isObserver)>>
  /\ Ran("request_join", <<>>, "")
  /\ UNCHANGED <<scriptVars, clockVars>>

\* socket.on("error", alert)
SocketError ==
  /\ outbox' = <<>>
  /\ Ran("error", <<>>, "")
  /\ UNCHANGED <<scriptVars, clockVars>>
(* ------------------------------ rendering ----------------------------- *)

\* renderGame(state) with showResultDetails being srd; state is None for a
\* null payload.  It writes lastState, openTomatoMenu, isObserver,
\* localStorage, dom, menus and tomato.
\* A variant that leaves isObserver as it is:
renderGameNoReconcile(state, srd) ==
  /\ lastState' = state
  /\ IF state = None \/ state[1].me = None
     THEN UNCHANGED <<openTomatoMenu, isObserver, localStorage, dom, menus, tomato,
                      rendered>>
     ELSE /\ openTomatoMenu' = 0
          /\ rendered' = state
          /\ UNCHANGED <<isObserver, localStorage>>
          /\ dom' = RenderDom(dom, state[1], srd, now)
          /\ menus' = {}
          /\ tomato' = RenderTomato(tomato, dom', state[1], now)

\* A variant that writes the header before it tests state.me:
renderGameHeaderFirst(state, srd) ==
  /\ lastState' = state
  /\ IF state = None
     THEN UNCHANGED <<openTomatoMenu, isObserver, localStorage, dom, menus, tomato,
                      rendered>>
     ELSE IF state[1].me = None
     THEN /\ dom' = [dom EXCEPT !.vault = state[1].vaults, !.alarm = state[1].alarms,
                                !.phase = PhasePlain(StatusText(state[1].phase,
                                                                state[1].chip_color))]
          /\ UNCHANGED <<openTomatoMenu, isObserver, localStorage, menus, tomato,
                         rendered>>
     ELSE LET isObserverView == state[1].viewer_role = "observer"
          IN /\ rendered' = state
             /\ openTomatoMenu' =
                  IF openTomatoMenu # 0 /\ ~(\E m \in menus : m.id = openTomatoMenu)
                  THEN 0 ELSE openTomatoMenu
             /\ IF isObserverView # isObserver
                THEN /\ isObserver' = isObserverView
                     /\ localStorage' = setItem(localStorage, "observer_mode",
                                                BoolString(isObserverView))
                ELSE UNCHANGED <<isObserver, localStorage>>
             /\ dom' = RenderDom(dom, state[1], srd, now)
             /\ menus' = {}
             /\ tomato' = RenderTomato(tomato, dom', state[1], now)

renderGame(state, srd) ==
  /\ lastState' = state
  /\ IF state = None \/ state[1].me = None
     THEN UNCHANGED <<openTomatoMenu, isObserver, localStorage, dom, menus, tomato,
                      rendered>>
     ELSE LET isObserverView == state[1].viewer_role = "observer"
          IN /\ rendered' = state
             /\ openTomatoMenu' =
                  IF openTomatoMenu # 0 /\ ~(\E m \in menus : m.id = openTomatoMenu)
                  THEN 0 ELSE openTomatoMenu
             /\ IF isObserverView # isObserver
                THEN /\ isObserver' = isObserverView
                     /\ localStorage' = setItem(localStorage, "observer_mode",
                                                BoolString(isObserverView))
                ELSE UNCHANGED <<isObserver, localStorage>>
             /\ dom' = RenderDom(dom, state[1], srd, now)
             \* the name buttons, and a menu attached to one, are replaced
             /\ menus' = {}
             /\ tomato' = RenderTomato(tomato, dom', state[1], now)

\* The payloads the server sends a viewer with id vid at clock nowMs.
Roles == {"player", "observer"}

\* Every phase for both roles with two other participants, and in the FLOP
\* every list of others with every chip and settle state of the viewer.
Snapshots(vid, nowMs) ==
  {Snapshot(vid, role, pw[1], 2, FALSE,
            <<PlayerRec("p2", "Bob", FALSE, TRUE, 0, TRUE, 3, FALSE),
              PlayerRec("p3", "Cyd", TRUE, TRUE, 0, FALSE, 0, TRUE)>>,
            pw[2], None) :
     role \in Roles,
     pw \in {<<"LOBBY", FALSE>>, <<"FLOP", FALSE>>, <<"RESULT", TRUE>>,
             <<"RESULT", FALSE>>}}
  \cup
  {Snapshot(vid, v[1], "FLOP", v[2], v[3], others, FALSE, None) :
     v \in {<<"player", 0, FALSE>>, <<"player", 2, FALSE>>, <<"player", 2, TRUE>>,
            <<"player", 0, TRUE>>, <<"observer", 0, FALSE>>,
            <<"observer", 2, TRUE>>},
     others \in OthersLists(nowMs \div 1000)}

\* socket.on("game_update", renderGame)
GameUpdate(payloads) ==
  \E state \in payloads :
    /\ renderGame(state, showResultDetails)
    /\ outbox' = <<>>
    /\ Ran("game_update", <<>>, "")
    /\ UNCHANGED <<playerId, myName, showResultDetails, gameActionToast,
                   chatInput, nameInput, clockVars>>

\* toggleResultDetails()
ToggleResultDetails ==
  /\ showResultDetails' = ~showResultDetails
  /\ IF lastState # None
     THEN renderGame(lastState, ~showResultDetails)
     ELSE UNCHANGED <<lastState, rendered, openTomatoMenu, isObserver, localStorage, dom,
                      menus, tomato>>
  /\ outbox' = <<>>
  /\ Ran("toggleResultDetails", <<>>, "")
  /\ UNCHANGED <<playerId, myName, gameActionToast, chatInput, nameInput,
                 clockVars>>
(* --------------------------- tomato handlers -------------------------- *)

\* socket.on("tomato_event")
TomatoEventHandler(events) ==
  \E event \in events :
    /\ IF lastState = None
       THEN /\ tomato' = [tomato EXCEPT !.pendingTomatoEvent = event]
            /\ UNCHANGED dom
       ELSE LET me == lastState[1].me
            IN /\ dom' = IF me # None
                         THEN [dom EXCEPT !.areaPlayerId = me[1].player_id,
                                          !.areaSplat = TRUE]
                         ELSE dom
               /\ tomato' = applyTomatoEffect(tomato, dom', event, me, now)
    /\ outbox' = <<>>
    /\ Ran("tomato_event", <<>>, "")
    /\ UNCHANGED <<localStorage, playerId, myName, isObserver, showResultDetails,
                   lastState, rendered, openTomatoMenu, gameActionToast, menus, chatInput,
                   nameInput, clockVars>>

\* The callback of scheduleTomatoImpact's timer.
TomatoImpactTimer ==
  /\ tomato.tomatoImpactTimeout # None
  /\ now >= tomato.tomatoImpactTimeout[1].due
  /\ LET t == tomato.tomatoImpactTimeout[1]
         targetEl == TargetElement(dom, t.meId, t.targetId)
     IN tomato' = [tomato EXCEPT
                     !.tomatoImpactTimeout = None,
                     !.hits = IF targetEl # NoEl THEN @ \cup {targetEl} ELSE @]
  /\ outbox' = <<>>
  /\ Ran("tomatoImpactTimeout", <<>>, "")
  /\ UNCHANGED <<localStorage, playerId, myName, isObserver, showResultDetails,
                 lastState, rendered, openTomatoMenu, gameActionToast, dom, menus,
                 chatInput, nameInput, clockVars>>

\* A flight ends: its transitionend event (any time while the element is in
\* the document), or its fallback timer if the element is still there.  The
\* element is removed and its target element gets class tomato-hit, which
\* shows only if that element is still in the document.
FlightEnds(f) ==
  tomato' = [tomato EXCEPT
               !.flights = @ \ {f},
               !.hits = IF f.live THEN @ \cup {f.target} ELSE @]

TomatoFlightTransitionEnd ==
  /\ \E f \in tomato.flights : FlightEnds(f)
  /\ outbox' = <<>>
  /\ Ran("transitionend", <<>>, "")
  /\ UNCHANGED <<localStorage, playerId, myName, isObserver, showResultDetails,
                 lastState, rendered, openTomatoMenu, gameActionToast, dom, menus,
                 chatInput, nameInput, clockVars>>

TomatoFlightTimer ==
  /\ \E f \in tomato.flights : now >= f.due /\ FlightEnds(f)
  /\ outbox' = <<>>
  /\ Ran("tomatoFlightTimeout", <<>>, "")
  /\ UNCHANGED <<localStorage, playerId, myName, isObserver, showResultDetails,
                 lastState, rendered, openTomatoMenu, gameActionToast, dom, menus,
                 chatInput, nameInput, clockVars>>

\* The callback of scheduleTomatoClear's timer.
\* A variant that leaves activeTomatoTargetId and the flights as they are:
TomatoClearKeepsTarget ==
  /\ tomato.tomatoClearTimeout # None
  /\ now >= tomato.tomatoClearTimeout[1]
  /\ tomato' = updateTomatoToast(
                 [tomato EXCEPT !.tomatoClearTimeout = None,
                                !.hits = {},
                                !.tomatoImpactTimeout = None],
                 <<>>)
  /\ outbox' = <<>>
  /\ Ran("tomatoClearTimeout", <<>>, "")
  /\ UNCHANGED <<localStorage, playerId, myName, isObserver, showResultDetails,
                 lastState, rendered, openTomatoMenu, gameActionToast, dom, menus,
                 chatInput, nameInput, clockVars>>

TomatoClearTimer ==
  /\ tomato.tomatoClearTimeout # None
  /\ now >= tomato.tomatoClearTimeout[1]
  /\ tomato' = updateTomatoToast(
                 [tomato EXCEPT !.tomatoClearTimeout = None,
                                !.hits = {},
                                !.flights = {},
                                !.activeTomatoTargetId = NoId,
                                !.activeTomatoExpiresAt = 0,
                                !.activeTomatoShowAt = 0,
                                !.tomatoImpactTimeout = None],
                 <<>>)
  /\ outbox' = <<>>
  /\ Ran("tomatoClearTimeout", <<>>, "")
  /\ UNCHANGED <<localStorage, playerId, myName, isObserver, showResultDetails,
                 lastState, rendered, openTomatoMenu, gameActionToast, dom, menus,
                 chatInput, nameInput, clockVars>>

(* ------------------------- game action toast -------------------------- *)

\* socket.on("game_action_error") -> showGameActionToast(message)
GameActionError ==
  \E message \in {"", "Not your turn"} :
    /\ gameActionToast' =
         IF message = "" THEN [gameActionToast EXCEPT !.show = FALSE, !.text = ""]
         ELSE [show |-> TRUE, text |-> message,
               due |-> Some(now + GAME_ACTION_TOAST_MS)]
    /\ outbox' = <<>>
    /\ Ran("game_action_error", <<>>, "")
    /\ UNCHANGED <<localStorage, playerId, myName, isObserver, showResultDetails,
                   lastState, rendered, tomato, openTomatoMenu, dom, menus, chatInput,
                   nameInput, clockVars>>

\* The callback of showGameActionToast's timer.
GameActionToastTimer ==
  /\ gameActionToast.due # None
  /\ now >= gameActionToast.due[1]
  /\ gameActionToast' = [gameActionToast EXCEPT !.show = FALSE, !.due = None]
  /\ outbox' = <<>>
  /\ Ran("gameActionToastTimeout", <<>>, "")
  /\ UNCHANGED <<localStorage, playerId, myName, isObserver, showResultDetails,
                 lastState, rendered, tomato, openTomatoMenu, dom, menus, chatInput,
                 nameInput, clockVars>>

(* ------------------------------ the clock ----------------------------- *)

\* setInterval(updateDisconnectedTimers, 1000): the callback runs once a
\* second, at instants the model leaves open.
DiscTimerInterval ==
  /\ dom' = updateDisconnectedTimers(dom, now)
  /\ outbox' = <<>>
  /\ Ran("updateDisconnectedTimers", <<>>, "")
  /\ UNCHANGED <<localStorage, playerId, myName, isObserver, showResultDetails,
                 lastState, rendered, tomato, openTomatoMenu, gameActionToast, menus,
                 chatInput, nameInput, clockVars>>

\* The times at which a pending timer is due.
PendingDues ==
  (IF tomato.tomatoClearTimeout # None THEN {tomato.tomatoClearTimeout[1]} ELSE {})
  \cup (IF tomato.tomatoImpactTimeout # None
        THEN {tomato.tomatoImpactTimeout[1].due} ELSE {})
  \cup {f.due : f \in tomato.flights}
  \cup (IF gameActionToast.due # None THEN {gameActionToast.due[1]} ELSE {})

\* Time passes: by one period of the disconnect timer, or up to a pending
\* timer's due time, and never past one: a due timer runs before the clock
\* moves on.
Advance ==
  /\ ticks < MaxTicks
  /\ \E t \in {now + DISC_TIMER_PERIOD_MS} \cup PendingDues :
       /\ t > now
       /\ \A d \in PendingDues : t <= d
       /\ now' = t
  /\ ticks' = ticks + 1
  /\ outbox' = <<>>
  /\ Ran("tick", <<>>, "")
  /\ UNCHANGED <<scriptVars, reloads>>

\* The same passing of time, followed for MaxElapses clock steps: long
\* enough for a tomato to fly, splat and be cleared, and for time to go on.
Elapse ==
  /\ ticks < MaxElapses
  /\ \E t \in {now + DISC_TIMER_PERIOD_MS} \cup PendingDues :
       /\ t > now
       /\ \A d \in PendingDues : t <= d
       /\ now' = t
  /\ ticks' = ticks + 1
  /\ outbox' = <<>>
  /\ Ran("tick", <<>>, "")
  /\ UNCHANGED <<scriptVars, reloads>>
(* ------------------------------- intents ------------------------------ *)

\* An intent that only emits: nothing of the script or the page changes.
EmitOnly(op, msgs, input, answer) ==
  /\ outbox' = msgs
  /\ Ran(op, input, answer)
  /\ UNCHANGED <<scriptVars, clockVars>>

\* startGame()
StartGame ==
  /\ outbox' = <<Bare("start_game")>>
  /\ Ran("startGame", <<>>, "")
  /\ UNCHANGED <<scriptVars, clockVars>>

\* restartGame(): ok is the user's answer to confirm().
RestartGame(ok) ==
  /\ outbox' = IF ok THEN <<Bare("restart_game")>> ELSE <<>>
  /\ Ran("restartGame", <<>>, IF ok THEN "ok" ELSE "cancel")
  /\ UNCHANGED <<scriptVars, clockVars>>

\* changeName() with typed in #name-input.
\* A variant that takes the text as typed (as the first version of the
\* script did):
ChangeNameUntrimmed(typed) ==
  /\ IF typed # <<>>
     THEN /\ myName' = typed
          /\ localStorage' = setItem(localStorage, "player_name", typed)
          /\ outbox' = <<ChangeNameMsg(typed)>>
          /\ nameInput' = <<>>
     ELSE /\ outbox' = <<>>
          /\ nameInput' = typed
          /\ UNCHANGED <<myName, localStorage>>
  /\ Ran("changeName", typed, "")
  /\ UNCHANGED <<playerId, isObserver, showResultDetails, lastState, rendered, tomato,
                 openTomatoMenu, gameActionToast, dom, menus, chatInput,
                 clockVars>>

ChangeName(typed) ==
  LET newName == Trim(typed)
  IN /\ IF newName # <<>>
        THEN /\ myName' = newName
             /\ localStorage' = setItem(localStorage, "player_name", newName)
             /\ outbox' = <<ChangeNameMsg(newName)>>
             /\ nameInput' = <<>>
        ELSE /\ outbox' = <<>>
             /\ nameInput' = typed
             /\ UNCHANGED <<myName, localStorage>>
     /\ Ran("changeName", typed, "")
     /\ UNCHANGED <<playerId, isObserver, showResultDetails, lastState, rendered, tomato,
                    openTomatoMenu, gameActionToast, dom, menus, chatInput,
                    clockVars>>

\* setObserverMode(nextIsObserver)
setObserverMode(nextIsObserver) ==
  /\ isObserver' = nextIsObserver
  /\ localStorage' = setItem(localStorage, "observer_mode", BoolString(nextIsObserver))
  /\ outbox' = <<JoinGame(playerId, myName, nextIsObserver)>>

\* toggleObserver(): ok is the user's answer to confirm(), asked only when
\* leaving the game.
\* A variant that switches to observer whatever the answer:
ToggleObserverNoConfirm(ok) ==
  /\ IF ~isObserver
     THEN setObserverMode(TRUE) /\ Ran("toggleObserver", <<>>, IF ok THEN "ok" ELSE "cancel")
     ELSE ok /\ setObserverMode(FALSE) /\ Ran("toggleObserver", <<>>, "")
  /\ UNCHANGED <<playerId, myName, showResultDetails, lastState, rendered, tomato,
                 openTomatoMenu, gameActionToast, dom, menus, chatInput,
                 nameInput, clockVars>>

ToggleObserver(ok) ==
  /\ IF ~isObserver
     THEN /\ IF ok THEN setObserverMode(TRUE)
                   ELSE outbox' = <<>> /\ UNCHANGED <<isObserver, localStorage>>
          /\ Ran("toggleObserver", <<>>, IF ok THEN "ok" ELSE "cancel")
     ELSE \* no dialog is shown: ok is not an input of this branch
          /\ ok
          /\ setObserverMode(FALSE)
          /\ Ran("toggleObserver", <<>>, "")
  /\ UNCHANGED <<playerId, myName, showResultDetails, lastState, rendered, tomato,
                 openTomatoMenu, gameActionToast, dom, menus, chatInput,
                 nameInput, clockVars>>

\* A click on the Remove button of opponent card i: removePlayer(player_id).
RemovePlayer(i, ok) ==
  /\ i \in 1..Len(dom.opponents)
  /\ dom.opponents[i].kick # None
  /\ EmitOnly("removePlayer",
              IF ok THEN <<RemovePlayerMsg(dom.opponents[i].kick[1])>> ELSE <<>>,
              <<>>, IF ok THEN "ok" ELSE "cancel")

\* A click on chip-bank button i: takeChip(val, "center").
\* A variant that also removes the chip from the displayed bank:
TakeChipOptimistic(i) ==
  /\ i \in 1..Len(dom.chipBank)
  /\ outbox' = <<TakeChipMsg(dom.chipBank[i].chip_value, dom.chipBank[i].source)>>
  /\ dom' = [dom EXCEPT !.chipBank = SelectSeq(@, LAMBDA b : b # dom.chipBank[i])]
  /\ Ran("takeChip", <<>>, "")
  /\ UNCHANGED <<localStorage, playerId, myName, isObserver, showResultDetails,
                 lastState, rendered, tomato, openTomatoMenu, gameActionToast, menus,
                 chatInput, nameInput, clockVars>>

TakeChipFromBank(i) ==
  /\ i \in 1..Len(dom.chipBank)
  /\ EmitOnly("takeChip",
              <<TakeChipMsg(dom.chipBank[i].chip_value, dom.chipBank[i].source)>>,
              <<>>, "")

\* A click on the chip button of opponent card i: takeChip(chip, player_id).
TakeChipFromOpponent(i) ==
  /\ i \in 1..Len(dom.opponents)
  /\ dom.opponents[i].chipBtn # None
  /\ EmitOnly("takeChip",
              <<TakeChipMsg(dom.opponents[i].chipBtn[1].chip_value,
                            dom.opponents[i].chipBtn[1].source)>>,
              <<>>, "")

\* returnChip()
ReturnChip ==
  /\ outbox' = <<Bare("return_chip")>>
  /\ Ran("returnChip", <<>>, "")
  /\ UNCHANGED <<scriptVars, clockVars>>

\* toggleSettle()
ToggleSettle ==
  /\ outbox' = <<Bare("toggle_settle")>>
  /\ Ran("toggleSettle", <<>>, "")
  /\ UNCHANGED <<scriptVars, clockVars>>

\* The submit handler of #chat-form with typed in #chat-input.
\* A variant that sends whatever is left after trimming:
ChatSubmitAlways(typed) ==
  /\ outbox' = <<ChatMessage(Trim(typed))>>
  /\ chatInput' = <<>>
  /\ Ran("chatSubmit", typed, "")
  /\ UNCHANGED <<localStorage, playerId, myName, isObserver, showResultDetails,
                 lastState, rendered, tomato, openTomatoMenu, gameActionToast, dom, menus,
                 nameInput, clockVars>>

ChatSubmit(typed) ==
  LET text == Trim(typed)
  IN /\ IF text = <<>>
        THEN outbox' = <<>> /\ chatInput' = typed
        ELSE outbox' = <<ChatMessage(text)>> /\ chatInput' = <<>>
     /\ Ran("chatSubmit", typed, "")
     /\ UNCHANGED <<localStorage, playerId, myName, isObserver, showResultDetails,
                    lastState, rendered, tomato, openTomatoMenu, gameActionToast, dom, menus,
                    nameInput, clockVars>>

(* ----------------------------- tomato menu ---------------------------- *)

\* A click on the name button of opponent card i:
\* toggleTomatoMenu(player_id, name, nameBtn).  The menu found in the
\* document is removed, a new one is attached to the button.
\* A variant that leaves the menu found where it is:
NameButtonClickKeepsMenu(i) ==
  /\ i \in 1..Len(dom.opponents)
  /\ dom.opponents[i].player_id # NoId
  /\ LET id == CHOOSE n \in 1..(Cardinality(menus) + 1) :
                 \A m \in menus : m.id # n
     IN /\ menus' = menus \cup {[id |-> id, target |-> dom.opponents[i].player_id]}
        /\ openTomatoMenu' = id
  /\ outbox' = <<>>
  /\ Ran("toggleTomatoMenu", <<>>, "")
  /\ UNCHANGED <<localStorage, playerId, myName, isObserver, showResultDetails,
                 lastState, rendered, tomato, gameActionToast, dom, chatInput, nameInput,
                 clockVars>>

NameButtonClick(i) ==
  /\ i \in 1..Len(dom.opponents)
  /\ dom.opponents[i].player_id # NoId
  /\ LET existing == IF menus = {} THEN {} ELSE {CHOOSE m \in menus : TRUE}
         rest == menus \ existing
         id == CHOOSE n \in 1..(Cardinality(rest) + 1) :
                 \A m \in rest : m.id # n
     IN /\ menus' = rest \cup {[id |-> id, target |-> dom.opponents[i].player_id]}
        /\ openTomatoMenu' = id
  /\ outbox' = <<>>
  /\ Ran("toggleTomatoMenu", <<>>, "")
  /\ UNCHANGED <<localStorage, playerId, myName, isObserver, showResultDetails,
                 lastState, rendered, tomato, gameActionToast, dom, chatInput, nameInput,
                 clockVars>>

\* A click on the button of an attached menu.
ThrowTomato ==
  \E m \in menus :
    /\ outbox' = <<ThrowTomatoMsg(m.target)>>
    /\ menus' = menus \ {m}
    /\ openTomatoMenu' = 0
    /\ Ran("throwTomato", <<>>, "")
    /\ UNCHANGED <<localStorage, playerId, myName, isObserver, showResultDetails,
                   lastState, rendered, tomato, gameActionToast, dom, chatInput, nameInput,
                   clockVars>>

\* A click that reaches the document from outside the menu and its name
\* button: closeOnOutsideClick of every attached menu removes it.
OutsideClick ==
  /\ menus # {}
  /\ menus' = {}
  /\ openTomatoMenu' = 0
  /\ outbox' = <<>>
  /\ Ran("closeOnOutsideClick", <<>>, "")
  /\ UNCHANGED <<localStorage, playerId, myName, isObserver, showResultDetails,
                 lastState, rendered, tomato, gameActionToast, dom, chatInput, nameInput,
                 clockVars>>
(* ------------------------- page load and reload ----------------------- *)

\* The state once the script has run on a freshly loaded page whose
\* localStorage holds ls, at clock nowMs.
Loaded(ls, uuid) ==
  [localStorage |-> LoadPlayerId(ls, uuid).ls,
   playerId |-> LoadPlayerId(ls, uuid).id,
   myName |-> LoadName(ls),
   isObserver |-> LoadObserver(ls)]

InitPage(stored, followed) ==
  \E ls \in stored, uuid \in UUIDs :
    LET L == Loaded(ls, uuid)
    IN /\ localStorage = L.localStorage
       /\ playerId = L.playerId
       /\ myName = L.myName
       /\ isObserver = L.isObserver
       /\ showResultDetails = FALSE
       /\ lastState = None
       /\ rendered = None
       /\ tomato = InitialTomato
       /\ openTomatoMenu = 0
       /\ gameActionToast = HiddenActionToast
       /\ dom = InitialDom
       /\ menus = {}
       /\ chatInput = <<>>
       /\ nameInput = <<>>
       /\ now = StartMs
       /\ ticks = 0
       /\ reloads = 0
       /\ steps = 0
       /\ limit = followed
       /\ outbox = <<>>
       /\ lastOp = "load"
       /\ lastInput = <<>>
       /\ dialog = ""


\* The user reloads the page: the script runs again on the static page, with
\* the localStorage the last session left.
Reload ==
  /\ reloads < MaxReloads
  /\ reloads' = reloads + 1
  /\ \E uuid \in UUIDs :
       LET L == Loaded(localStorage, uuid)
       IN /\ localStorage' = L.localStorage
          /\ playerId' = L.playerId
          /\ myName' = L.myName
          /\ isObserver' = L.isObserver
  /\ showResultDetails' = FALSE
  /\ lastState' = None
  /\ rendered' = None
  /\ tomato' = InitialTomato
  /\ openTomatoMenu' = 0
  /\ gameActionToast' = HiddenActionToast
  /\ dom' = InitialDom
  /\ menus' = {}
  /\ chatInput' = <<>>
  /\ nameInput' = <<>>
  /\ outbox' = <<>>
  /\ Ran("load", <<>>, "")
  /\ UNCHANGED <<now, ticks>>

(* --------------------------- specifications --------------------------- *)

\* What the server sends in this model of the whole page: a null payload,
\* a payload without a viewer record, and a few payloads with one.
CorePayloads ==
  {None, Some(NoMeSnapshot)}
  \cup {Some(Snapshot(playerId, rv[1], "FLOP", 2, FALSE,
                      <<PlayerRec("p2", "Bob", FALSE, FALSE, (now \div 1000) - 59,
                                  FALSE, 1, FALSE)>>, FALSE, rv[2])) :
          rv \in {<<"observer", None>>, <<"player", None>>,
                  <<"player", Some(TomatoEvent("e1", Some(now \div 1000), "p2",
                                               playerId))>>}}
  \cup {Some(Snapshot(playerId, "player", "RESULT", 0, FALSE, <<>>, TRUE, None))}

\* What localStorage holds when the page of this model loads: nothing, or
\* the items of an earlier session that chose a name and a role.
CoreStored ==
  {EmptyStorage,
   [player_id |-> Some("u1"), player_name |-> Some(<<"a">>),
    observer_mode |-> Some("true")]}

\* What the user types: whitespace only, and a name with whitespace around it.
CoreTexts == {<<" ">>, <<" ", "a">>}

CoreEvents ==
  {None, Some(TomatoEvent("e2", Some(now \div 1000), playerId, "p2"))}

Init == InitPage(CoreStored, MaxSteps)

Next ==
  \/ Connect
  \/ RequestJoin
  \/ SocketError
  \/ GameUpdate(CorePayloads)
  \/ TomatoEventHandler(CoreEvents)
  \/ GameActionError
  \/ StartGame
  \/ \E ok \in BOOLEAN : RestartGame(ok)
  \/ \E typed \in CoreTexts : ChangeName(typed)
  \/ \E ok \in BOOLEAN : ToggleObserver(ok)
  \/ \E i \in 1..2, ok \in BOOLEAN : RemovePlayer(i, ok)
  \/ \E i \in 1..2 : TakeChipFromBank(i)
  \/ \E i \in 1..2 : TakeChipFromOpponent(i)
  \/ ReturnChip
  \/ ToggleSettle
  \/ \E typed \in CoreTexts : ChatSubmit(typed)
  \/ \E i \in 1..2 : NameButtonClick(i)
  \/ ThrowTomato
  \/ OutsideClick
  \/ ToggleResultDetails
  \/ TomatoImpactTimer
  \/ TomatoFlightTransitionEnd
  \/ TomatoFlightTimer
  \/ TomatoClearTimer
  \/ GameActionToastTimer
  \/ DiscTimerInterval
  \/ Advance
  \/ Reload

Spec == Init /\ [][Next]_vars

(* The text inputs: the chat form and the name form with every text of up
   to MaxLen characters, the join handshake, the observer switch, snapshots
   and reloads, followed without a limit on the number of events. *)
InputStored ==
  {EmptyStorage,
   [player_id |-> Some("u1"), player_name |-> Some(<<"a">>),
    observer_mode |-> None]}

InputPayloads ==
  {Some(NoMeSnapshot),
   Some(Snapshot(playerId, "player", "LOBBY", 0, FALSE, <<>>, FALSE, None))}

InitInput == InitPage(InputStored, 0)

NextInput ==
  \/ \E typed \in Texts : ChatSubmit(typed)
  \/ \E typed \in Texts : ChangeName(typed)
  \/ RequestJoin
  \/ \E ok \in BOOLEAN : ToggleObserver(ok)
  \/ GameUpdate(InputPayloads)
  \/ Reload

SpecInput == InitInput /\ [][NextInput]_vars

(* Rendering: every snapshot of Snapshots, with the timestamps of players
   who disconnected before the page was loaded, sent at any clock reading;
   the result-detail toggle, the chip buttons, the interval timer and the
   clock, followed without a limit on the number of events. *)
RenderStored ==
  {[player_id |-> Some("u1"), player_name |-> None, observer_mode |-> None]}

RenderPayloads ==
  {None, Some(NoMeSnapshot)} \cup {Some(s) : s \in Snapshots(playerId, StartMs)}

InitRender == InitPage(RenderStored, 0)

NextRender ==
  \/ GameUpdate(RenderPayloads)
  \/ ToggleResultDetails
  \/ \E i \in 1..2 : TakeChipFromBank(i)
  \/ \E i \in 1..2 : TakeChipFromOpponent(i)
  \/ DiscTimerInterval
  \/ Advance

SpecRender == InitRender /\ [][NextRender]_vars

(* The tomato effect: events that arrive on the socket or inside a snapshot,
   snapshots with and without the card of the other player, re-renders, the
   four tomato timers and the clock, followed for MaxTomatoSteps handler runs. *)
\* An event the server made when the page was loaded (it stays in every
\* later snapshot), and events made at the clock reading nowMs: one thrown by
\* the viewer, one without id and target card.
LoadTimeEvent(vid) == TomatoEvent("e1", Some(StartMs \div 1000), "p2", vid)

TomatoEvents(vid, nowMs) ==
  {Some(TomatoEvent("e2", Some(nowMs \div 1000), vid, "p2")),
   Some(TomatoEvent(NoId, Some(nowMs \div 1000), "p3", "p9")),
   Some(TomatoEvent("e3", None, "p2", vid))}

TomatoPayloads(vid) ==
  {Some(NoMeSnapshot)}
  \cup {Some(Snapshot(vid, "player", "FLOP", 0, FALSE, others, FALSE, ev)) :
          others \in {<<>>, <<PlayerRec("p2", "Bob", FALSE, TRUE, 0, FALSE, 1, FALSE)>>},
          ev \in {None, Some(LoadTimeEvent(vid))}}

InitTomato == InitPage(RenderStored, MaxTomatoSteps)

NextTomato ==
  \/ GameUpdate(TomatoPayloads(playerId))
  \/ TomatoEventHandler(TomatoEvents(playerId, now))
  \/ ToggleResultDetails
  \/ TomatoImpactTimer
  \/ TomatoFlightTransitionEnd
  \/ TomatoFlightTimer
  \/ TomatoClearTimer
  \/ Elapse

SpecTomato == InitTomato /\ [][NextTomato]_vars

(* The tomato menus: snapshots with two opponents, with one opponent and one
   observer, in player view and in observer view, the clicks on the name
   buttons, on the menu button and outside, re-renders and reloads, followed
   without a limit on the number of events. *)
MenuPayloads(vid) ==
  {Some(NoMeSnapshot)}
  \cup {Some(Snapshot(vid, role, "FLOP", 0, FALSE, others, FALSE, None)) :
          role \in Roles,
          others \in {<<PlayerRec("p2", "Bob", FALSE, TRUE, 0, FALSE, 1, FALSE),
                         PlayerRec("p3", "Cyd", FALSE, TRUE, 0, FALSE, 0, FALSE)>>,
                       <<PlayerRec("p2", "Bob", TRUE, TRUE, 0, FALSE, 0, FALSE),
                         PlayerRec("p3", "Cyd", FALSE, TRUE, 0, FALSE, 0, FALSE)>>}}

InitMenu == InitPage(RenderStored, 0)

NextMenu ==
  \/ GameUpdate(MenuPayloads(playerId))
  \/ ToggleResultDetails
  \/ \E i \in 1..2 : NameButtonClick(i)
  \/ ThrowTomato
  \/ OutsideClick
  \/ Reload

SpecMenu == InitMenu /\ [][NextMenu]_vars

(* ------------------------- what the page promises --------------------- *)

\* The messages of the given type among those the last handler emitted.
Emitted(type) == {i \in 1..Len(outbox) : outbox[i].type = type}

(* C1 -- the player id is stable: once the page has loaded, playerId equals
   the player_id item of localStorage, no handler and no reload changes
   either of them, and every join_game message carries that id. *)
C1_IdConsistent ==
  /\ playerId # NoId
  /\ getItem(localStorage, "player_id") = Some(playerId)
  /\ \A i \in Emitted("join_game") : outbox[i].player_id = playerId

C1_StableIdentity ==
  /\ []C1_IdConsistent
  /\ [][/\ playerId' = playerId
        /\ getItem(localStorage, "player_id")' = getItem(localStorage, "player_id")]_vars

\* A join_game sent after a reload, with the id generated on the first visit.
C1_Witness ==
  /\ reloads >= 1
  /\ lastOp = "request_join"
  /\ outbox = <<JoinGame(playerId, myName, isObserver)>>
  /\ getItem(localStorage, "player_name") = None
  /\ getItem(localStorage, "observer_mode") = None

(* C2 -- the join handshake: the request_join handler emits exactly one
   join_game message carrying the current playerId, myName (the empty string
   if none) and isObserver; the connect handler emits nothing; and a
   join_game is only ever emitted by the request_join handler or by a switch
   of observer mode. *)
C2_JoinHandshake ==
  /\ lastOp = "request_join" => outbox = <<JoinGame(playerId, myName, isObserver)>>
  /\ lastOp = "connect" => outbox = <<>>
  /\ Emitted("join_game") # {} => lastOp \in {"request_join", "toggleObserver"}

\* The reply of an observer who has a name.
C2_Witness ==
  /\ lastOp = "request_join"
  /\ Len(outbox) = 1
  /\ outbox[1].type = "join_game"
  /\ outbox[1].name = <<"a">>
  /\ outbox[1].is_observer

(* C3 -- intents are sent, not applied: startGame, takeChip, returnChip,
   toggleSettle, a chat submit and a tomato throw emit one socket message of
   their type (a chat submit of whitespace emits none) and leave lastState,
   isObserver, showResultDetails and everything renderGame displays
   unchanged; none of these handlers tests the game state before it emits
   (each can run in every state, whatever snapshot was rendered last);
   within a page session what renderGame displays changes only in a
   game_update, in toggleResultDetails, or in the elapsed-time labels the
   interval timer refreshes. *)
IntentType ==
  [startGame |-> "start_game", takeChip |-> "take_chip",
   returnChip |-> "return_chip", toggleSettle |-> "toggle_settle",
   chatSubmit |-> "chat_message", throwTomato |-> "throw_tomato"]

\* What renderGame displays of the game: the elements it writes, without the
\* tomato marks on the viewer's area.
GameView(d) == [d EXCEPT !.areaSplat = FALSE, !.areaPlayerId = NoId]

C3_IntentStep ==
  lastOp' \in DOMAIN IntentType =>
    /\ \/ Len(outbox') = 1 /\ outbox'[1].type = IntentType[lastOp']
       \/ lastOp' = "chatSubmit" /\ outbox' = <<>>
    /\ lastState' = lastState
    /\ isObserver' = isObserver
    /\ showResultDetails' = showResultDetails
    /\ dom' = dom

C3_ViewStep ==
  GameView(dom') # GameView(dom) =>
    lastOp' \in {"game_update", "toggleResultDetails", "updateDisconnectedTimers",
                 "load"}

\* While events are still followed, every intent handler can run.
C3_NotBlocked ==
  (limit = 0 \/ steps < limit) =>
    /\ ENABLED StartGame
    /\ ENABLED ReturnChip
    /\ ENABLED ToggleSettle
    /\ \A i \in 1..Len(dom.chipBank) : ENABLED TakeChipFromBank(i)
    /\ \A i \in 1..Len(dom.opponents) :
         dom.opponents[i].chipBtn # None => ENABLED TakeChipFromOpponent(i)
    /\ \A typed \in CoreTexts : ENABLED ChatSubmit(typed)
    /\ menus # {} => ENABLED ThrowTomato

NoViewer(state) == state = None \/ state[1].me = None

C5_NoViewerStep ==
  (lastOp' = "game_update" /\ NoViewer(lastState')) =>
    /\ isObserver' = isObserver
    /\ localStorage' = localStorage
    /\ showResultDetails' = showResultDetails
    /\ tomato' = tomato
    /\ dom' = dom
    /\ rendered' = rendered
    /\ UNCHANGED <<playerId, myName, openTomatoMenu, menus, gameActionToast,
                   chatInput, nameInput>>

C5_NoViewerUpdateKeepsAll == [][C5_NoViewerStep]_vars

\* A payload without a viewer record has arrived after the full render of a
\* won heist: the vault count and the result banner are still displayed.
C5_Witness ==
  /\ lastOp = "game_update"
  /\ lastState = Some(NoMeSnapshot)
  /\ rendered # None
  /\ dom.vault = 1
  /\ dom.phase.kind = "result"

(* C6 -- the server's role wins: after renderGame has rendered a game_update
   with a viewer record, isObserver is TRUE exactly if the snapshot's
   viewer_role is "observer", whatever it was before; and a request_join that
   comes next is answered with a join_game carrying that value. *)
FullUpdate == lastOp = "game_update" /\ ~NoViewer(lastState)

ServerRole == lastState[1].viewer_role = "observer"

C6_RoleAfterRender == FullUpdate => isObserver = ServerRole

C6_NextJoin ==
  (FullUpdate /\ lastOp' = "request_join") =>
    /\ Len(outbox') = 1
    /\ outbox'[1].type = "join_game"
    /\ outbox'[1].is_observer = ServerRole

C6_ServerRoleWins == []C6_RoleAfterRender /\ [][C6_NextJoin]_vars

\* The first event of a session that stored observer mode is a snapshot with
\* the role player: the local TRUE has been overridden and stored anew.
C6_Witness ==
  /\ FullUpdate
  /\ steps = 1
  /\ reloads = 0
  /\ getItem(localStorage, "player_name") = Some(<<"a">>)
  /\ ~isObserver
  /\ getItem(localStorage, "observer_mode") = Some("false")

(* C7 -- destructive actions are confirmed first: restart_game and
   remove_player are emitted only by their handler after the user accepted
   the dialog; toggleObserver of a player switches to observer (isObserver,
   the stored observer_mode, the join_game) only after the user accepted;
   a declined dialog emits nothing and changes no state; toggleObserver of an
   observer shows no dialog and emits join_game with is_observer FALSE. *)
C7_Gated ==
  /\ Emitted("restart_game") # {} => lastOp = "restartGame" /\ dialog = "ok"
  /\ Emitted("remove_player") # {} => lastOp = "removePlayer" /\ dialog = "ok"
  /\ lastOp \in {"restartGame", "removePlayer"} => dialog \in {"ok", "cancel"}
  /\ dialog = "cancel" => outbox = <<>>

C7_Step ==
  /\ dialog' = "cancel" => UNCHANGED scriptVars
  /\ (lastOp' = "toggleObserver" /\ ~isObserver) =>
       /\ dialog' \in {"ok", "cancel"}
       /\ dialog' = "ok" =>
            /\ isObserver'
            /\ getItem(localStorage', "observer_mode") = Some("true")
            /\ outbox' = <<JoinGame(playerId, myName, TRUE)>>
  /\ (lastOp' = "toggleObserver" /\ isObserver) =>
       /\ dialog' = ""
       /\ ~isObserver'
       /\ getItem(localStorage', "observer_mode") = Some("false")
       /\ outbox' = <<JoinGame(playerId, myName, FALSE)>>

C7_ConfirmFirst == []C7_Gated /\ [][C7_Step]_vars

\* The user declined to leave the game: still a player, nothing was sent.
C7_Witness ==
  /\ lastOp = "toggleObserver"
  /\ dialog = "cancel"
  /\ outbox = <<>>
  /\ ~isObserver
  /\ getItem(localStorage, "observer_mode") = None

(* C8 -- the chat form: a submit emits chat_message with the text of the
   input without its leading and trailing whitespace (inner whitespace kept)
   and empties the input, if that text is non-empty; if the input is empty or
   all whitespace it emits nothing and leaves the input as typed.  No other
   handler emits chat_message. *)
AllSpace(t) == \A k \in 1..Len(t) : IsSpace(t[k])

\* r is t without the whitespace at its two ends, t not being all whitespace.
IsTrimOf(r, t) ==
  \E i, j \in 1..Len(t) :
    /\ i <= j
    /\ r = SubSeq(t, i, j)
    /\ ~IsSpace(t[i]) /\ ~IsSpace(t[j])
    /\ \A k \in 1..Len(t) : (k < i \/ k > j) => IsSpace(t[k])

C8_ChatSubmit ==
  /\ lastOp = "chatSubmit" =>
       IF AllSpace(lastInput)
       THEN outbox = <<>> /\ chatInput = lastInput
       ELSE /\ Len(outbox) = 1
            /\ outbox[1].type = "chat_message"
            /\ IsTrimOf(outbox[1].text, lastInput)
            /\ chatInput = <<>>
  /\ Emitted("chat_message") # {} => lastOp = "chatSubmit"

\* Text with whitespace at both ends was submitted: its core was sent.
C8_Witness ==
  /\ lastOp = "chatSubmit"
  /\ lastInput = <<" ", "a", " ">>
  /\ outbox = <<ChatMessage(<<"a">>)>>
  /\ chatInput = <<>>

(* C9 -- the name: changeName with a text that is not all whitespace sets
   myName to the text without the whitespace at its ends, stores it as
   player_name, emits change_name with it and empties the input; with empty
   or all-whitespace text it changes and emits nothing.  myName and the
   stored name change in no other step (a game_update included), a reload
   reads the stored name back, and every join_game carries myName: the name
   accepted last, or the empty string if there is none. *)
C9_Name ==
  /\ myName = LoadName(localStorage)
  /\ \A i \in Emitted("join_game") : outbox[i].name = myName
  /\ lastOp = "changeName" =>
       IF AllSpace(lastInput)
       THEN outbox = <<>> /\ nameInput = lastInput
       ELSE /\ IsTrimOf(myName, lastInput)
            /\ getItem(localStorage, "player_name") = Some(myName)
            /\ outbox = <<ChangeNameMsg(myName)>>
            /\ nameInput = <<>>

C9_Step ==
  /\ (myName' # myName \/ getItem(localStorage, "player_name")'
                          # getItem(localStorage, "player_name")) =>
        lastOp' = "changeName" /\ ~AllSpace(lastInput')
  /\ (lastOp' = "changeName" /\ AllSpace(lastInput')) =>
        myName' = myName /\ localStorage' = localStorage

C9_NameSticks == []C9_Name /\ [][C9_Step]_vars

\* After a reload the reply to request_join carries a name that only
\* changeName can have set in this run.
C9_Witness ==
  /\ reloads >= 1
  /\ lastOp = "request_join"
  /\ Len(outbox) = 1
  /\ outbox[1].name = <<"a", "a">>

(* C4 -- where a chip is taken from: a take_chip message names as source
   either "center", with a chip of the chips_available of the snapshot
   rendered last, or the player_id of a non-observer entry of that
   snapshot's players other than the viewer, with the chip that entry
   holds; the source is never a socket session id. *)
C4_TakeChipSource ==
  lastOp = "takeChip" =>
    /\ rendered # None
    /\ Len(outbox) = 1
    /\ outbox[1].type = "take_chip"
    /\ LET m == outbox[1]
           s == rendered[1]
       IN /\ \/ /\ m.source = "center"
                /\ \E k \in 1..Len(s.chips_available) :
                     s.chips_available[k] = m.chip_value
             \/ \E k \in 1..Len(s.players) :
                  /\ ~s.players[k].is_observer
                  /\ s.players[k].player_id = m.source
                  /\ s.players[k].player_id # s.me[1].player_id
                  /\ s.players[k].chip = m.chip_value
          /\ m.source # s.me[1].player_id
          /\ m.source # s.me[1].sid
          /\ \A k \in 1..Len(s.players) : m.source # s.players[k].sid

\* The viewer plays and holds a chip, and so does an opponent: the chip
\* taken by a click on a card is the opponent's.
C4_Witness ==
  /\ lastOp = "takeChip"
  /\ rendered # None
  /\ rendered[1].viewer_role = "player"
  /\ rendered[1].me[1].chip = 2
  /\ outbox = <<TakeChipMsg(3, "p2")>>

(* C10 -- a full re-render: after a game_update with a viewer record, or a
   toggle of the result details that re-renders one, every element
   renderGame writes is what that snapshot, showResultDetails and the clock
   reading of the render give on the static page, whatever was displayed
   before (the clock enters the elapsed-time label of a disconnected
   opponent); and rendering the snapshot once more at that clock reading
   changes nothing. *)
FullRender ==
  lastOp \in {"game_update", "toggleResultDetails"} /\ ~NoViewer(lastState)

C10_RenderIsFunction ==
  FullRender =>
    /\ GameView(dom)
         = GameView(RenderDom(InitialDom, lastState[1], showResultDetails, now))
    /\ RenderDom(dom, lastState[1], showResultDetails, now) = dom

\* The view as the snapshot and showResultDetails alone would give it: the
\* same at every clock reading, so the one of the clock at page load.
C10_SnapshotAlone ==
  FullRender =>
    GameView(dom)
      = GameView(RenderDom(InitialDom, lastState[1], showResultDetails, StartMs))

\* A second snapshot has been rendered over a different earlier one, after
\* the clock moved on, with an opponent disconnected for over a minute.
C10_Witness ==
  /\ lastOp = "game_update"
  /\ ~NoViewer(lastState)
  /\ now > StartMs
  /\ Len(dom.opponents) = 1
  /\ dom.opponents[1].discTime.form = "m s"
  /\ showResultDetails

(* C11 -- what the viewer may press: after every render of a snapshot with a
   viewer record, the chip bank is marked disabled exactly if the viewer is
   in observer view or me.is_settled; the settle button is enabled exactly if
   the viewer is not an observer and me.chip is truthy; the return button is
   enabled exactly if, in addition, me.is_settled is false; and in observer
   view both buttons are disabled and the settle button is not active,
   whatever me.chip and me.is_settled are and whatever was shown before. *)
C11_Enablement ==
  FullRender =>
    LET me == lastState[1].me[1]
        obs == lastState[1].viewer_role = "observer"
    IN /\ ("disabled" \in dom.chipBankClasses) <=> (obs \/ me.is_settled)
       /\ ~dom.settleDisabled <=> (~obs /\ me.chip # 0)
       /\ ~dom.returnDisabled <=> (~obs /\ me.chip # 0 /\ ~me.is_settled)
       /\ obs => /\ dom.settleDisabled
                 /\ dom.returnDisabled
                 /\ "active" \notin dom.settleClasses
                 /\ dom.settleText = "I'm Settled"

\* An observer whose record holds a chip and says settled: nothing to press.
C11_Witness ==
  /\ lastOp = "game_update"
  /\ ~NoViewer(lastState)
  /\ lastState[1].viewer_role = "observer"
  /\ lastState[1].me[1].chip = 2
  /\ lastState[1].me[1].is_settled
  /\ dom.settleDisabled
  /\ "disabled" \in dom.chipBankClasses

(* C12 -- who is shown where: after every render of a snapshot with a viewer
   record, the opponents row holds, in the order of state.players, exactly
   the entries with is_observer false, without the entry of the viewer's own
   player_id in player view and without leaving any out in observer view;
   the observer list holds, in that order, exactly the entries with
   is_observer true, and the "No observers" text exactly if there are none;
   no participant is shown in both; and the " (You)" tag is on a pill exactly
   if the view is the observer view and the pill is that of me.player_id. *)
C12_Lists ==
  FullRender =>
    LET s == lastState[1]
        me == s.me[1]
        obs == s.viewer_role = "observer"
        row == SelectSeq(s.players,
                         LAMBDA p : ~p.is_observer
                                    /\ (obs \/ p.player_id # me.player_id))
        watchers == SelectSeq(s.players, LAMBDA p : p.is_observer)
    IN /\ Len(dom.opponents) = Len(row)
       /\ \A i \in 1..Len(row) :
            /\ dom.opponents[i].player_id = row[i].player_id
            /\ dom.opponents[i].name = row[i].name
       /\ dom.observerEmpty <=> (Len(watchers) = 0)
       /\ Len(dom.observerList) = Len(watchers)
       /\ \A i \in 1..Len(watchers) :
            /\ dom.observerList[i].text[1] = watchers[i].name
            /\ (dom.observerList[i].text[3] = " (You)")
                 <=> (obs /\ watchers[i].player_id = me.player_id)
       /\ \A i \in 1..Len(dom.opponents), k \in 1..Len(s.players) :
            s.players[k].player_id = dom.opponents[i].player_id
              => ~s.players[k].is_observer

\* An observer's view of a table with another observer and one player: two
\* pills, the viewer's tagged, and one card.
C12_Witness ==
  /\ FullRender
  /\ lastState[1].viewer_role = "observer"
  /\ Len(dom.observerList) = 2
  /\ dom.observerList[1].text[3] = ""
  /\ dom.observerList[2].text[3] = " (You)"
  /\ Len(dom.opponents) = 1
  /\ dom.opponents[1].player_id = "p3"

(* C13 -- the tomato effect is transient: once TOMATO_LIFETIME_MS have passed
   since applyTomatoEffect last showed an event, and the timer callbacks due
   by then have run, the toast is hidden and empty, no element of the
   document carries the tomato-hit mark, no tomato-flight element is left and
   activeTomatoTargetId is null; and so it stays, whatever snapshots are
   rendered and whatever callbacks run, until an event is shown again. *)
TomatoClean ==
  /\ ~tomato.toast.show
  /\ tomato.toast.text = <<>>
  /\ tomato.hits = {}
  /\ tomato.flights = {}
  /\ tomato.activeTomatoTargetId = NoId

NoTimerDue == \A d \in PendingDues : d > now

C13_Transient ==
  (/\ tomato.appliedAt # None
   /\ now >= tomato.appliedAt[1] + TOMATO_LIFETIME_MS
   /\ NoTimerDue)
    => TomatoClean

\* A second after the lifetime of the last event shown, a snapshot that
\* still carries an event has just been rendered, and nothing is left.
C13_Witness ==
  /\ tomato.appliedAt # None
  /\ now >= tomato.appliedAt[1] + TOMATO_LIFETIME_MS + DISC_TIMER_PERIOD_MS
  /\ lastOp = "game_update"
  /\ ~NoViewer(lastState)
  /\ lastState[1].tomato_event # None
  /\ Len(dom.opponents) = 1
  /\ TomatoClean

(* C14 -- throw_tomato comes only from the button of a tomato menu.  At most
   one menu is attached to the page; an attached menu was opened from the
   name button of an opponent card of the view on the page, its target is
   that card's player_id and never the viewer's own player_id.  A step emits
   throw_tomato only as the click on the button of the attached menu: it
   emits that one message, with the menu's target, and leaves no menu
   attached.  A click on a name button leaves its own menu as the only one
   attached. *)
C14_Menus ==
  /\ Cardinality(menus) <= 1
  /\ \A m \in menus :
       /\ rendered # None
       /\ ~NoViewer(rendered)
       /\ m.target # NoId
       /\ m.target # rendered[1].me[1].player_id
       /\ m.target # playerId
       /\ \E i \in 1..Len(dom.opponents) : dom.opponents[i].player_id = m.target
       /\ openTomatoMenu = m.id

C14_ThrowStep ==
  /\ (\E i \in 1..Len(outbox') : outbox'[i].type = "throw_tomato")
       => /\ lastOp' = "throwTomato"
          /\ menus # {}
  /\ lastOp' = "throwTomato"
       => /\ \E m \in menus : outbox' = <<ThrowTomatoMsg(m.target)>>
          /\ menus' = {}
          /\ openTomatoMenu' = 0
  /\ lastOp' = "toggleTomatoMenu"
       => \E i \in 1..Len(dom.opponents) :
            menus' = {[id |-> openTomatoMenu',
                       target |-> dom.opponents[i].player_id]}

C14_ThrowOnlyFromMenu == C14_Menus /\ [][C14_Menus' /\ C14_ThrowStep]_vars

\* The menu of the first opponent was replaced by the menu of the second,
\* whose button was then clicked.
C14_Witness ==
  /\ lastOp = "throwTomato"
  /\ Len(dom.opponents) = 2
  /\ dom.opponents[2].player_id = "p3"
  /\ outbox = <<ThrowTomatoMsg("p3")>>
  /\ menus = {}

(* C15 -- the result-detail toggle is local state.  showResultDetails is
   false when the page has loaded; a step changes it only as
   toggleResultDetails, which flips it and, when lastState has a viewer
   record, renders lastState with the new flag (without one the page stays
   as it is).  After every render of a snapshot with a viewer record the
   detailed rankings are on the page exactly if the snapshot has phase
   RESULT, carries result_details, and showResultDetails is true.  Two calls
   of toggleResultDetails at the clock reading of that render bring back
   the flag and the view. *)
DetailsDisplayed == dom.phase.kind = "result" /\ dom.phase.details # <<>>

\* The view after two calls of toggleResultDetails in a row.
ToggleTwiceDom ==
  IF NoViewer(lastState) THEN dom
  ELSE RenderDom(RenderDom(dom, lastState[1], ~showResultDetails, now),
                 lastState[1], showResultDetails, now)

C15_State ==
  /\ lastOp = "load" => ~showResultDetails
  /\ FullRender =>
       /\ DetailsDisplayed <=> /\ lastState[1].phase = "RESULT"
                               /\ lastState[1].result_details # None
                               /\ showResultDetails
       /\ ToggleTwiceDom = dom

C15_ToggleStep ==
  /\ showResultDetails' # showResultDetails => lastOp' = "toggleResultDetails"
  /\ lastOp' = "toggleResultDetails" =>
       /\ showResultDetails' = ~showResultDetails
       /\ lastState' = lastState
       /\ IF NoViewer(lastState)
          THEN dom' = dom
          ELSE dom' = RenderDom(dom, lastState[1], showResultDetails', now)

C15_LocalToggle == C15_State /\ [][C15_State' /\ C15_ToggleStep]_vars

\* The claim as it was made: at any time, the rankings of the snapshot on
\* the page are shown exactly if its phase is RESULT and the flag is true.
C15_DisplayedIffFlag ==
  rendered # None =>
    (DetailsDisplayed <=> /\ rendered[1].phase = "RESULT"
                          /\ rendered[1].result_details # None
                          /\ showResultDetails)

\* The flag is false again after being toggled, the result view shows the
\* button without the rankings.
C15_Witness ==
  /\ lastOp = "toggleResultDetails"
  /\ ~NoViewer(lastState)
  /\ lastState[1].phase = "RESULT"
  /\ lastState[1].result_details # None
  /\ ~showResultDetails
  /\ dom.phase.kind = "result"
  /\ dom.phase.details = <<>>
  /\ dom.phase.buttons[4] = "Show Detailed Rankings"
====
